---- MODULE Spec2Model ----
(***************************************************************************)
(* Model of the graph service of ha_visualiser                             *)
(* (custom_components/ha_visualiser/graph_service.py).                     *)
(*                                                                         *)
(* Strings are sequences of tokens: "device:d1" is <<"device", ":", "d1">>,*)
(* "light.l1" is <<"light", ".", "l1">>.  startswith, split, replace, the  *)
(* substring test and lower() work token by token.                         *)
(***************************************************************************)
EXTENDS Integers, Sequences, FiniteSets, TLC

VARIABLES
    reg,        \* the registries and the state store of the host (read-only)
    pc,         \* position of the query: "idle", "running", "done", "error"
    query,      \* arguments of the running call
    nodes,      \* dict id -> GraphNode, in insertion order
    edges,      \* list of GraphEdge
    visited,    \* set of node ids
    edge_set,   \* set of edge keys
    stack,      \* frames of _add_entity_and_neighbors[_filtered], innermost last
    pending,    \* <<call>> about to be entered, or <<>>
    retval,     \* value returned by the last finished recursive call
    result,     \* <<payload>> returned to the caller, or <<>>
    prev,       \* <<payload>> of the previous finished call, or <<>>
    expanded,   \* ids whose neighbors were enumerated, in order (a log)
    edge_args,  \* arguments of _create_symmetrical_edge under test
    edge_out,   \* <<edge(a,b,t), edge(b,a,t)>> once applied, or <<>>
    search_args,\* arguments of search_entities
    search_out, \* <<results>> of search_entities once applied, or <<>>
    stats_out,  \* <<payload>> of get_graph_statistics once applied, or <<>>
    related_out,\* the applications of _find_related_entities: a set of
                \* [entity_id, related]
    extract_out,\* <<set>> returned by _extract_entities_from_config, or <<>>
    other,      \* <<locals>> of a second, suspended query, or <<>>
    hass        \* the host's side of the integration setup: hass.data[DOMAIN],
                \* the frontend panel and the log of the setup calls

vars == <<reg, pc, query, nodes, edges, visited, edge_set, stack, pending,
          retval, result, prev, expanded, edge_args, edge_out, search_args,
          search_out, stats_out, related_out, extract_out, other, hass>>

None == "None"

(***************************************************************************)
(* Bounds of the model.                                                    *)
(***************************************************************************)
MaxDepth == 2
MaxLimit == 2

(***************************************************************************)
(* The universe of identifiers.                                            *)
(***************************************************************************)
EntityId(domain, object) == <<domain, ".", object>>
DeviceNode(device_id) == <<"device", ":", device_id>>
AreaNode(area_id) == <<"area", ":", area_id>>

L1 == EntityId("light", "l1")
S1 == EntityId("sensor", "s1")
S2 == EntityId("sensor", "s2")
M1 == EntityId("automation", "m1")
M2 == EntityId("automation", "m2")
Z1 == EntityId("zone", "z1")
T1 == EntityId("template", "t1")
Gone == EntityId("light", "gone")       \* never has a state
ZGone == EntityId("zone", "zgone")      \* never has a state
D1 == "d1"
D2 == "d2"
DGone == "dgone"                        \* never in the device registry
A1 == "a1"
A2 == "a2"
AGone == "agone"                        \* never in the area registry

\* str.startswith(prefix) for the two-token prefixes the code uses
StartsWith(s, p1, p2) == Len(s) >= 2 /\ s[1] = p1 /\ s[2] = p2

\* entity_id.replace("device:", "") / .replace("area:", "") on a node id
StripPrefix(s) == s[3]

\* entity_id.split(".")[0]
SplitDomain(s) == IF Len(s) >= 2 /\ s[2] = "." THEN s[1] ELSE "other"

(***************************************************************************)
(* GraphEdge and _create_symmetrical_edge.                                 *)
(***************************************************************************)
GraphEdge(f, t, rel, label) ==
    [from_node |-> f, to_node |-> t, relationship_type |-> rel, label |-> label]

ContainmentTags == {"has_entity", "device_has", "area_contains",
                    "area_contains_device", "device_in_area", "zone_contains",
                    "in_zone"}
TemplateTags == {"template:T1", "template:other"}
OtherTags == {"custom_rel"}
AllTags == ContainmentTags \cup {"automation_trigger", "automation_action"}
              \cup TemplateTags \cup OtherTags

\* relationship_type.replace("_", " ")
ReplaceUnderscore(rel) ==
    CASE rel = "custom_rel" -> "custom rel"
      [] rel = "has_entity" -> "has entity"
      [] rel = "device_has" -> "device has"
      [] rel = "area_contains" -> "area contains"
      [] rel = "area_contains_device" -> "area contains device"
      [] rel = "device_in_area" -> "device in area"
      [] rel = "zone_contains" -> "zone contains"
      [] rel = "in_zone" -> "in zone"
      [] rel = "automation_trigger" -> "automation trigger"
      [] rel = "automation_action" -> "automation action"
      [] OTHER -> rel

get_node_priority(node_id) ==
    IF StartsWith(node_id, "area", ":") THEN 1
    ELSE IF StartsWith(node_id, "device", ":") THEN 2
    ELSE IF StartsWith(node_id, "zone", ".") THEN 3
    ELSE IF StartsWith(node_id, "automation", ".") THEN 4
    ELSE 5

ContainmentLabel(from_node) ==
    IF StartsWith(from_node, "area", ":") THEN "contains"
    ELSE IF StartsWith(from_node, "device", ":") THEN "has entity"
    ELSE IF StartsWith(from_node, "zone", ".") THEN "contains"
    ELSE "contains"

_create_symmetrical_edge(node_a, node_b, relationship_type) ==
    IF relationship_type \in ContainmentTags THEN
        LET pair == IF get_node_priority(node_a) < get_node_priority(node_b)
                    THEN <<node_a, node_b>> ELSE <<node_b, node_a>>
        IN GraphEdge(pair[1], pair[2], relationship_type,
                     ContainmentLabel(pair[1]))
    ELSE IF relationship_type = "automation_trigger" THEN
        IF StartsWith(node_a, "automation", ".")
        THEN GraphEdge(node_b, node_a, relationship_type, "triggers")
        ELSE GraphEdge(node_a, node_b, relationship_type, "triggers")
    ELSE IF relationship_type = "automation_action" THEN
        IF StartsWith(node_a, "automation", ".")
        THEN GraphEdge(node_a, node_b, relationship_type, "controls")
        ELSE GraphEdge(node_b, node_a, relationship_type, "controls")
    ELSE IF relationship_type \in TemplateTags THEN
        GraphEdge(node_a, node_b, relationship_type, "uses")
    ELSE
        LET pair == IF get_node_priority(node_a) <= get_node_priority(node_b)
                    THEN <<node_a, node_b>> ELSE <<node_b, node_a>>
        IN GraphEdge(pair[1], pair[2], relationship_type,
                     ReplaceUnderscore(relationship_type))

\* f"{edge.from_node}:{edge.to_node}:{edge.relationship_type}"
EdgeKey(edge) ==
    edge.from_node \o <<":">> \o edge.to_node \o <<":">>
        \o <<edge.relationship_type>>

(***************************************************************************)
(* Sequence helpers.                                                       *)
(***************************************************************************)
Range(s) == {s[i] : i \in 1..Len(s)}

\* every order in which a set can be iterated
Orders(S) == {s \in [1..Cardinality(S) -> S] : Range(s) = S}

Tagged(ids, tag) == [i \in 1..Len(ids) |-> <<ids[i], tag>>]

RECURSIVE Flatten(_)
Flatten(ss) == IF ss = <<>> THEN <<>> ELSE Head(ss) \o Flatten(Tail(ss))

\* the fixed enumeration order of the host's dictionaries
EntityOrder == <<L1, S1, S2, M1, M2, Z1, T1, Gone>>
DeviceOrder == <<D1, D2>>
AreaOrder == <<A1, A2>>

(***************************************************************************)
(* RegistryAdapter: the read-only accessors of the host registries.        *)
(***************************************************************************)
\* hass.states.async_entity_ids()
async_entity_ids == SelectSeq(EntityOrder, LAMBDA e : e \in reg.states)

\* hass.states.get(entity_id) is not None
HasState(entity_id) == entity_id \in reg.states

\* state.attributes.get("friendly_name", entity_id)
FriendlyName(entity_id) ==
    IF entity_id \in DOMAIN reg.friendly THEN reg.friendly[entity_id]
    ELSE entity_id

\* self._entity_registry.async_get(entity_id) is not None
HasEntry(entity_id) == entity_id \in DOMAIN reg.entries
Entry(entity_id) == reg.entries[entity_id]

\* self._device_registry.async_get(device_id) is not None
HasDevice(device_id) == device_id \in DOMAIN reg.devices
Device(device_id) == reg.devices[device_id]

\* self._area_registry.async_get_area(area_id) is not None
HasArea(area_id) == area_id \in DOMAIN reg.areas
Area(area_id) == reg.areas[area_id]

\* self._device_registry.devices.items()
devices_items == SelectSeq(DeviceOrder, HasDevice)

\* self._area_registry.areas.items()
areas_items == SelectSeq(AreaOrder, HasArea)

\* entity_registry.async_entries_for_device(registry, device_id)
async_entries_for_device(device_id) ==
    SelectSeq(EntityOrder,
              LAMBDA e : HasEntry(e) /\ Entry(e).device_id = device_id)

\* entity_registry.async_entries_for_area(registry, area_id)
async_entries_for_area(area_id) ==
    SelectSeq(EntityOrder,
              LAMBDA e : HasEntry(e) /\ Entry(e).area_id = area_id)

\* device.name_by_user or device.name or "Unknown Device"
DeviceName(device_id) ==
    LET d == Device(device_id)
    IN IF d.name_by_user # <<>> THEN d.name_by_user
       ELSE IF d.name # <<>> THEN d.name
       ELSE <<"Unknown Device">>

(***************************************************************************)
(* _create_node                                                            *)
(***************************************************************************)
GraphNode(id, label, domain, area, device_id, state) ==
    [id |-> id, label |-> label, domain |-> domain, area |-> area,
     device_id |-> device_id, state |-> state]

\* area.name if area else None, for an area id
AreaNameOrNone(area_id) == IF HasArea(area_id) THEN Area(area_id).name ELSE <<>>

EntityAreaName(entity_id) ==
    IF ~HasEntry(entity_id) THEN <<>>
    ELSE LET e == Entry(entity_id)
         IN IF e.area_id # None THEN AreaNameOrNone(e.area_id)
            ELSE IF e.device_id # None
                 THEN IF HasDevice(e.device_id)
                         /\ Device(e.device_id).area_id # None
                      THEN AreaNameOrNone(Device(e.device_id).area_id)
                      ELSE <<>>
                 ELSE <<>>

\* <<node>> or <<>> (None)
_create_node(entity_id) ==
    IF StartsWith(entity_id, "device", ":") THEN
        LET device_id == StripPrefix(entity_id)
        IN IF ~HasDevice(device_id) THEN <<>>
           ELSE <<GraphNode(entity_id, DeviceName(device_id), "device",
                     IF Device(device_id).area_id # None
                     THEN AreaNameOrNone(Device(device_id).area_id)
                     ELSE <<>>,
                     device_id,
                     IF Device(device_id).disabled_by = None
                     THEN "connected" ELSE "disabled")>>
    ELSE IF StartsWith(entity_id, "area", ":") THEN
        LET area_id == StripPrefix(entity_id)
        IN IF ~HasArea(area_id) THEN <<>>
           ELSE <<GraphNode(entity_id, Area(area_id).name, "area",
                            Area(area_id).name, None, "active")>>
    ELSE IF StartsWith(entity_id, "zone", ".") THEN
        IF ~HasState(entity_id) THEN <<>>
        ELSE <<GraphNode(entity_id, FriendlyName(entity_id), "zone", <<>>,
                         None, "state")>>
    ELSE IF ~HasState(entity_id) THEN <<>>
    ELSE <<GraphNode(entity_id, FriendlyName(entity_id),
                     SplitDomain(entity_id), EntityAreaName(entity_id),
                     IF HasEntry(entity_id) THEN Entry(entity_id).device_id
                     ELSE None,
                     "state")>>

(***************************************************************************)
(* ConfigReferenceExtractor.  A trigger/action block is a record           *)
(*   entity_id : list of strings (one element for a plain string),         *)
(*   entity_id_is_list, data, target : the entity_id lists of the "data"   *)
(*   and "target" mappings, device_id, area_id : a string or None,         *)
(*   is_dict : FALSE for an item of the list that is not a mapping.        *)
(***************************************************************************)
Block(entity_id, is_list, data, target, device_id, area_id) ==
    [entity_id |-> entity_id, entity_id_is_list |-> is_list, data |-> data,
     target |-> target, device_id |-> device_id, area_id |-> area_id,
     is_dict |-> TRUE]

EntityBlock(ids) == Block(ids, TRUE, <<>>, <<>>, None, None)

\* an item of a trigger/action list that is not a mapping (a bare string)
NotADict == [EntityBlock(<<>>) EXCEPT !.is_dict = FALSE]

UuidTokens == {"0123456789abcdef0123456789abcdef"}

\* a 32-character hexadecimal string
IsUuid(s) == Len(s) = 1 /\ s[1] \in UuidTokens

\* '.' in s
HasDot(s) == \E i \in 1..Len(s) : s[i] = "."

\* the resolved entity id, or <<>> (None)
_resolve_entity_uuid(s) ==
    IF IsUuid(s) THEN
        LET m == SelectSeq(EntityOrder,
                     LAMBDA e : HasEntry(e) /\ (Entry(e).id = s[1]
                                                \/ Entry(e).unique_id = s[1]))
        IN IF m # <<>> THEN Head(m) ELSE <<>>
    ELSE IF HasDot(s) THEN s
    ELSE <<>>

ResolvedOrRaw(s) ==
    IF _resolve_entity_uuid(s) # <<>> THEN _resolve_entity_uuid(s) ELSE s

_get_entities_for_device(device_id) == Range(async_entries_for_device(device_id))
_get_entities_for_area(area_id) == Range(async_entries_for_area(area_id))

BlockEntities(b) ==
    IF ~b.is_dict THEN {} ELSE
    {ResolvedOrRaw(x) : x \in Range(b.entity_id)}
    \cup Range(b.data) \cup {ResolvedOrRaw(x) : x \in Range(b.data)}
    \cup Range(b.target) \cup {ResolvedOrRaw(x) : x \in Range(b.target)}
    \cup (IF b.device_id = None THEN {}
          ELSE IF b.entity_id # <<>> /\ ~b.entity_id_is_list
                  /\ _resolve_entity_uuid(b.entity_id[1]) # <<>>
               THEN {_resolve_entity_uuid(b.entity_id[1])}
               ELSE _get_entities_for_device(b.device_id))
    \cup (IF b.area_id = None THEN {}
          ELSE _get_entities_for_area(b.area_id))

_extract_entities_from_config(config_list) ==
    UNION {BlockEntities(config_list[i]) : i \in 1..Len(config_list)}

_entity_referenced_in_config(entity_id, config_list) ==
    \E i \in 1..Len(config_list) :
        /\ config_list[i].is_dict
        /\ \/ entity_id \in Range(config_list[i].entity_id)
           \/ entity_id \in Range(config_list[i].data)
           \/ entity_id \in Range(config_list[i].target)

\* the automation has a (non-empty) configuration
HasConfig(automation_id) == automation_id \in DOMAIN reg.config

\* the configuration is a mapping: automation_config.get(...) works
IsMapping(automation_id) == reg.config[automation_id].is_mapping
Triggers(automation_id) == reg.config[automation_id].triggers
Actions(automation_id) == reg.config[automation_id].actions

(***************************************************************************)
(* RelationshipFinder.                                                     *)
(***************************************************************************)
DefaultRadius == 100

HasLocation(entity_id) == entity_id \in DOMAIN reg.loc

ZoneRadius(zone_id) ==
    IF zone_id \in DOMAIN reg.radius THEN reg.radius[zone_id]
    ELSE DefaultRadius

\* distance in meters of two points of one meridian, given in meters
_calculate_distance(lat1, lat2) == IF lat1 >= lat2 THEN lat1 - lat2 ELSE lat2 - lat1

\* the sets whose iteration order the traversal depends on
TriggerEntities(entity_id) ==
    IF StartsWith(entity_id, "automation", ".") /\ HasState(entity_id)
       /\ HasConfig(entity_id)
    THEN _extract_entities_from_config(Triggers(entity_id)) ELSE {}

ActionEntities(entity_id) ==
    IF StartsWith(entity_id, "automation", ".") /\ HasState(entity_id)
       /\ HasConfig(entity_id)
    THEN _extract_entities_from_config(Actions(entity_id)) ELSE {}

\* trigger_order, action_order: the orders in which the two sets are iterated
_find_automation_referenced_entities(automation_id, trigger_order, action_order) ==
    IF ~HasState(automation_id) \/ ~HasConfig(automation_id) THEN <<>>
    ELSE LET trig == SelectSeq(trigger_order, LAMBDA e : e # automation_id)
             act == SelectSeq(action_order,
                        LAMBDA e : e # automation_id /\ e \notin Range(trig))
         IN Tagged(trig, "automation_trigger")
            \o Tagged(act, "automation_action")

_find_automation_relationships(entity_id, trigger_order, action_order) ==
    LET own == IF StartsWith(entity_id, "automation", ".")
               THEN _find_automation_referenced_entities(
                        entity_id, trigger_order, action_order)
               ELSE <<>>
        automation_entities ==
            SelectSeq(async_entity_ids,
                      LAMBDA eid : StartsWith(eid, "automation", "."))
        Rel(automation_id) ==
            IF automation_id = entity_id \/ ~HasConfig(automation_id) THEN <<>>
            ELSE IF _entity_referenced_in_config(entity_id,
                                                 Triggers(automation_id))
                 THEN <<<<automation_id, "automation_trigger">>>>
            ELSE IF _entity_referenced_in_config(entity_id,
                                                 Actions(automation_id))
                 THEN <<<<automation_id, "automation_action">>>>
            ELSE <<>>
    IN own \o Flatten([i \in 1..Len(automation_entities) |->
                          Rel(automation_entities[i])])

_find_device_relationships(entity_id) ==
    IF Entry(entity_id).device_id = None THEN <<>>
    ELSE <<<<DeviceNode(Entry(entity_id).device_id), "has_entity">>>>

_find_area_relationships(entity_id) ==
    LET e == Entry(entity_id)
        area_id == IF e.area_id = None /\ e.device_id # None
                   THEN IF HasDevice(e.device_id)
                        THEN Device(e.device_id).area_id ELSE None
                   ELSE e.area_id
    IN IF area_id = None THEN <<>>
       ELSE <<<<AreaNode(area_id), "has_entity">>>>

_find_zone_relationships(entity_id) ==
    IF ~HasState(entity_id) \/ ~HasLocation(entity_id) THEN <<>>
    ELSE LET zone_entities ==
                 SelectSeq(async_entity_ids,
                     LAMBDA eid : /\ StartsWith(eid, "zone", ".")
                                  /\ HasLocation(eid)
                                  /\ _calculate_distance(reg.loc[entity_id],
                                         reg.loc[eid]) <= ZoneRadius(eid))
         IN Tagged(zone_entities, "in_zone")

TemplateDomains == <<"template", "input_boolean", "input_number",
                     "input_text", "input_select">>

\* f"template:{template_name}"
TemplateTag(name) == IF name = <<"T1">> THEN "template:T1" ELSE "template:other"

\* _entity_referenced_in_templates(entity_id, state.attributes)
_entity_referenced_in_templates(entity_id, template_entity_id) ==
    /\ template_entity_id \in DOMAIN reg.templates
    /\ entity_id \in reg.templates[template_entity_id]

_find_template_relationships(entity_id) ==
    LET OfDomain(domain) ==
            LET users == SelectSeq(async_entity_ids,
                             LAMBDA eid : /\ StartsWith(eid, domain, ".")
                                          /\ _entity_referenced_in_templates(
                                                 entity_id, eid))
            IN [i \in 1..Len(users) |->
                   <<users[i], TemplateTag(FriendlyName(users[i]))>>]
    IN Flatten([i \in 1..Len(TemplateDomains) |-> OfDomain(TemplateDomains[i])])

\* automation_config.get / automation_config.keys on a configuration that is
\* not a mapping raises AttributeError, which nothing in the service catches
RaisesAttributeError(entity_id) ==
    /\ ~StartsWith(entity_id, "device", ":")
    /\ ~StartsWith(entity_id, "area", ":")
    /\ ~StartsWith(entity_id, "zone", ".")
    /\ \/ /\ StartsWith(entity_id, "automation", ".")
          /\ HasState(entity_id) /\ HasConfig(entity_id)
          /\ ~IsMapping(entity_id)
       \/ \E i \in 1..Len(async_entity_ids) :
             LET automation_id == async_entity_ids[i]
             IN /\ StartsWith(automation_id, "automation", ".")
                /\ automation_id # entity_id
                /\ HasConfig(automation_id) /\ ~IsMapping(automation_id)

_find_related_entities(entity_id, trigger_order, action_order) ==
    IF StartsWith(entity_id, "device", ":") THEN
        LET device_id == StripPrefix(entity_id)
        IN Tagged(async_entries_for_device(device_id), "device_has")
           \o (IF HasDevice(device_id) /\ Device(device_id).area_id # None
               THEN <<<<AreaNode(Device(device_id).area_id), "device_in_area">>>>
               ELSE <<>>)
    ELSE IF StartsWith(entity_id, "area", ":") THEN
        LET area_id == StripPrefix(entity_id)
            devices_in_area ==
                SelectSeq(devices_items,
                          LAMBDA d : Device(d).area_id = area_id)
        IN Tagged(async_entries_for_area(area_id), "area_contains")
           \o Flatten([i \in 1..Len(devices_in_area) |->
                  <<<<DeviceNode(devices_in_area[i]), "area_contains_device">>>>
                  \o Tagged(async_entries_for_device(devices_in_area[i]),
                            "area_contains")])
    ELSE IF StartsWith(entity_id, "zone", ".") THEN
        IF ~HasState(entity_id) \/ ~HasLocation(entity_id) THEN <<>>
        ELSE Tagged(SelectSeq(async_entity_ids,
                        LAMBDA e : /\ HasLocation(e)
                                   /\ _calculate_distance(reg.loc[e],
                                          reg.loc[entity_id])
                                        <= ZoneRadius(entity_id)),
                    "zone_contains")
    ELSE _find_automation_relationships(entity_id, trigger_order, action_order)
         \o (IF HasEntry(entity_id)
             THEN _find_device_relationships(entity_id)
                  \o _find_area_relationships(entity_id)
                  \o _find_zone_relationships(entity_id)
                  \o _find_template_relationships(entity_id)
             ELSE <<>>)

(***************************************************************************)
(* GraphBuilder: get_entity_neighborhood, get_filtered_neighborhood and    *)
(* the two recursions, one action per step between two suspension points.  *)
(***************************************************************************)
NoQuery == [kind |-> "none", entity_id |-> <<>>, max_depth |-> 0,
            domain_filter |-> <<>>, area_filter |-> <<>>,
            relationship_filter |-> <<>>]

\* the root validation shared by both entry points: TRUE iff no ValueError
Resolves(entity_id) ==
    IF StartsWith(entity_id, "device", ":") THEN HasDevice(StripPrefix(entity_id))
    ELSE IF StartsWith(entity_id, "area", ":") THEN HasArea(StripPrefix(entity_id))
    ELSE IF StartsWith(entity_id, "zone", ".") THEN HasState(entity_id)
    ELSE entity_id \in Range(async_entity_ids)

\* nodes[entity_id] = node
PutNode(dict, node) ==
    IF \E i \in 1..Len(dict) : dict[i].id = node.id
    THEN [i \in 1..Len(dict) |-> IF dict[i].id = node.id THEN node ELSE dict[i]]
    ELSE Append(dict, node)

CallOf(entity_id, depth, filtered_count) ==
    [entity_id |-> entity_id, depth |-> depth, filtered_count |-> filtered_count]

Frame(entity_id, depth, related, filtered_count) ==
    [entity_id |-> entity_id, depth |-> depth, related |-> related,
     filtered_count |-> filtered_count]

Top == stack[Len(stack)]
Pop == SubSeq(stack, 1, Len(stack) - 1)

\* rel_filter in relationship_type
TagContains(tag, rel_filter) ==
    CASE rel_filter = "has" -> tag \in {"has_entity", "device_has"}
      [] rel_filter = "area" ->
             tag \in {"area_contains", "area_contains_device", "device_in_area"}
      [] rel_filter = "automation" ->
             tag \in {"automation_trigger", "automation_action"}
      [] OTHER -> tag = rel_filter

\* A faulty variant: the domain filter is not applied.
PassesFiltersIgnoringDomain(node, domain_filter, area_filter) ==
    ~(area_filter # <<>> /\ node.area # <<>>
      /\ node.area \notin Range(area_filter))

\* A faulty variant: the area filter is not applied.
PassesFiltersIgnoringArea(node, domain_filter, area_filter) ==
    ~(domain_filter # <<>> /\ node.domain \notin Range(domain_filter))

_passes_filters(node, domain_filter, area_filter) ==
    IF domain_filter # <<>> /\ node.domain \notin Range(domain_filter) THEN FALSE
    ELSE IF area_filter # <<>> /\ node.area # <<>>
            /\ node.area \notin Range(area_filter) THEN FALSE
    ELSE TRUE

\* A faulty variant: the root validation accepts every id.
StartOrRaiseNoValidation(entity_id) == "running"

\* the state after the root validation: "error" stands for the ValueError
StartOrRaise(entity_id) == IF Resolves(entity_id) THEN "running" ELSE "error"

\* the call validates the root and allocates nodes, edges, visited, edge_set
Start(q) ==
    /\ pc = "idle"
    /\ query' = q
    /\ pc' = StartOrRaise(q.entity_id)
    /\ IF pc' = "running"
       THEN /\ nodes' = <<>> /\ edges' = <<>> /\ visited' = {}
            /\ edge_set' = {} /\ stack' = <<>> /\ expanded' = <<>>
            /\ retval' = 0
            /\ pending' = <<CallOf(q.entity_id, q.max_depth, 0)>>
       ELSE UNCHANGED <<nodes, edges, visited, edge_set, stack, expanded,
                        retval, pending>>
    /\ UNCHANGED <<reg, result, prev, edge_args, edge_out, search_args,
                   search_out, stats_out, related_out, extract_out, other, hass>>

\* a caller that calls twice repeats its arguments
Begin(q) ==
    /\ IF prev = <<>> THEN TRUE ELSE prev[1].query = q
    /\ Start(q)

\* get_entity_neighborhood(entity_id, max_depth) up to the first recursive call
GetEntityNeighborhood(entity_id, max_depth) ==
    Begin([NoQuery EXCEPT !.kind = "plain", !.entity_id = entity_id,
                          !.max_depth = max_depth])

\* get_filtered_neighborhood(...) up to the first recursive call
GetFilteredNeighborhood(entity_id, max_depth, filters) ==
    Begin([kind |-> "filtered", entity_id |-> entity_id,
           max_depth |-> max_depth, domain_filter |-> filters.domain_filter,
           area_filter |-> filters.area_filter,
           relationship_filter |-> filters.relationship_filter])

\* if edge_key not in edge_set: edges.append(edge); edge_set.add(edge_key)
RecordEdge(edge) ==
    IF EdgeKey(edge) \notin edge_set
    THEN /\ edges' = Append(edges, edge)
         /\ edge_set' = edge_set \cup {EdgeKey(edge)}
    ELSE UNCHANGED <<edges, edge_set>>

Untouched == <<reg, query, pc, result, prev, edge_args, edge_out, search_args,
               search_out, stats_out, related_out, extract_out, other, hass>>

UntouchedByEntry == <<reg, query, result, prev, edge_args, edge_out,
                      search_args, search_out, stats_out, related_out,
                      extract_out, other, hass>>

\* related_entities = await self._find_related_entities(entity_id): the
\* exception, if any, propagates to the caller of the query
Expand(c, filtered_count) ==
    IF RaisesAttributeError(c.entity_id)
    THEN /\ pc' = "raised"
         /\ UNCHANGED <<stack, expanded>>
    ELSE /\ pc' = pc
         /\ \E to \in Orders(TriggerEntities(c.entity_id)),
               ao \in Orders(ActionEntities(c.entity_id)) :
               stack' = Append(stack,
                   Frame(c.entity_id, c.depth,
                         _find_related_entities(c.entity_id, to, ao),
                         filtered_count))
         /\ expanded' = Append(expanded, c.entity_id)

\* A faulty variant: the recursion forgets to count down.
SameDepth(depth) == depth

\* the depth handed to the recursive call: depth - 1
RecursionDepth(depth) == depth - 1

\* A faulty variant: the entry forgets visited.add(entity_id).
AddEntityAndNeighborsNotMarking ==
    /\ pc = "running" /\ query.kind = "plain" /\ pending # <<>>
    /\ LET c == pending[1]
           node == _create_node(c.entity_id)
       IN IF c.entity_id \in visited \/ c.depth < 0
          THEN UNCHANGED <<visited, nodes, stack, expanded, pc>>
          ELSE /\ visited' = visited
               /\ IF node # <<>>
                  THEN /\ nodes' = PutNode(nodes, node[1])
                       /\ IF c.depth > 0 THEN Expand(c, 0)
                          ELSE UNCHANGED <<stack, expanded, pc>>
                  ELSE UNCHANGED <<nodes, stack, expanded, pc>>
    /\ pending' = <<>>
    /\ UNCHANGED <<edges, edge_set, retval>>
    /\ UNCHANGED UntouchedByEntry

\* _add_entity_and_neighbors: entry, up to the start of the loop
AddEntityAndNeighbors ==
    /\ pc = "running" /\ query.kind = "plain" /\ pending # <<>>
    /\ LET c == pending[1]
           node == _create_node(c.entity_id)
       IN IF c.entity_id \in visited \/ c.depth < 0
          THEN UNCHANGED <<visited, nodes, stack, expanded, pc>>
          ELSE /\ visited' = visited \cup {c.entity_id}
               /\ IF node # <<>>
                  THEN /\ nodes' = PutNode(nodes, node[1])
                       /\ IF c.depth > 0 THEN Expand(c, 0)
                          ELSE UNCHANGED <<stack, expanded, pc>>
                  ELSE UNCHANGED <<nodes, stack, expanded, pc>>
    /\ pending' = <<>>
    /\ UNCHANGED <<edges, edge_set, retval>>
    /\ UNCHANGED UntouchedByEntry

\* A faulty variant: every related pair is recorded and followed, with neither the
\* visited test nor the edge_set test.
NextNeighborRecordAll ==
    /\ pc = "running" /\ query.kind = "plain" /\ pending = <<>>
    /\ stack # <<>> /\ Top.related # <<>>
    /\ LET related_id == Head(Top.related)[1]
           relationship_type == Head(Top.related)[2]
       IN /\ stack' = [stack EXCEPT ![Len(stack)].related = Tail(@)]
          /\ edges' = Append(edges, _create_symmetrical_edge(
                          Top.entity_id, related_id, relationship_type))
          /\ pending' = <<CallOf(related_id, Top.depth - 1, 0)>>
    /\ UNCHANGED <<nodes, visited, expanded, retval, edge_set>>
    /\ UNCHANGED Untouched

\* _add_entity_and_neighbors: one iteration of the loop over related_entities
NextNeighbor ==
    /\ pc = "running" /\ query.kind = "plain" /\ pending = <<>>
    /\ stack # <<>> /\ Top.related # <<>>
    /\ LET related_id == Head(Top.related)[1]
           relationship_type == Head(Top.related)[2]
       IN /\ stack' = [stack EXCEPT ![Len(stack)].related = Tail(@)]
          /\ IF related_id \notin visited
             THEN /\ RecordEdge(_create_symmetrical_edge(
                          Top.entity_id, related_id, relationship_type))
                  /\ pending' = <<CallOf(related_id, RecursionDepth(Top.depth), 0)>>
             ELSE UNCHANGED <<edges, edge_set, pending>>
    /\ UNCHANGED <<nodes, visited, expanded, retval>>
    /\ UNCHANGED Untouched

\* _add_entity_and_neighbors: the loop is exhausted, the call returns
ReturnFromExpansion ==
    /\ pc = "running" /\ query.kind = "plain" /\ pending = <<>>
    /\ stack # <<>> /\ Top.related = <<>>
    /\ stack' = Pop
    /\ UNCHANGED <<nodes, edges, visited, edge_set, pending, expanded, retval>>
    /\ UNCHANGED Untouched

\* return filtered_count: the caller assigns it to its own filtered_count,
\* except get_filtered_neighborhood, which drops the value (line 209)
ReturnCount(frames, count) ==
    /\ retval' = count
    /\ stack' = IF frames = <<>> THEN frames
                ELSE [frames EXCEPT ![Len(frames)].filtered_count = count]

\* _add_entity_and_neighbors_filtered: entry, up to the start of the loop
AddEntityAndNeighborsFiltered ==
    /\ pc = "running" /\ query.kind = "filtered" /\ pending # <<>>
    /\ LET c == pending[1]
           node == _create_node(c.entity_id)
       IN IF c.entity_id \in visited \/ c.depth < 0
          THEN /\ ReturnCount(stack, c.filtered_count)
               /\ UNCHANGED <<visited, nodes, expanded, pc>>
          ELSE /\ visited' = visited \cup {c.entity_id}
               /\ IF node # <<>> /\ _passes_filters(node[1], query.domain_filter,
                                                    query.area_filter)
                  THEN /\ nodes' = PutNode(nodes, node[1])
                       /\ IF c.depth > 0
                          THEN /\ Expand(c, c.filtered_count)
                               /\ UNCHANGED retval
                          ELSE /\ ReturnCount(stack, c.filtered_count)
                               /\ UNCHANGED <<expanded, pc>>
                  ELSE /\ ReturnCount(stack, c.filtered_count + 1)
                       /\ UNCHANGED <<nodes, expanded, pc>>
    /\ pending' = <<>>
    /\ UNCHANGED <<edges, edge_set>>
    /\ UNCHANGED UntouchedByEntry

\* _add_entity_and_neighbors_filtered: one iteration of the loop
NextNeighborFiltered ==
    /\ pc = "running" /\ query.kind = "filtered" /\ pending = <<>>
    /\ stack # <<>> /\ Top.related # <<>>
    /\ LET related_id == Head(Top.related)[1]
           relationship_type == Head(Top.related)[2]
           related_node == _create_node(related_id)
           rest == [stack EXCEPT ![Len(stack)].related = Tail(@)]
           counted == [rest EXCEPT ![Len(stack)].filtered_count = @ + 1]
       IN IF /\ query.relationship_filter # <<>>
             /\ ~\E f \in Range(query.relationship_filter) :
                    TagContains(relationship_type, f)
          THEN /\ stack' = counted
               /\ UNCHANGED <<edges, edge_set, pending>>
          ELSE IF related_id \in visited
          THEN /\ stack' = rest
               /\ UNCHANGED <<edges, edge_set, pending>>
          ELSE IF related_node # <<>>
                  /\ _passes_filters(related_node[1], query.domain_filter,
                                     query.area_filter)
          THEN /\ stack' = rest
               /\ RecordEdge(_create_symmetrical_edge(
                       Top.entity_id, related_id, relationship_type))
               /\ pending' = <<CallOf(related_id, RecursionDepth(Top.depth),
                                      Top.filtered_count)>>
          ELSE /\ stack' = counted
               /\ UNCHANGED <<edges, edge_set, pending>>
    /\ UNCHANGED <<nodes, visited, expanded, retval>>
    /\ UNCHANGED Untouched

\* _add_entity_and_neighbors_filtered: the loop is exhausted, the call returns
ReturnFromExpansionFiltered ==
    /\ pc = "running" /\ query.kind = "filtered" /\ pending = <<>>
    /\ stack # <<>> /\ Top.related = <<>>
    /\ ReturnCount(Pop, Top.filtered_count)
    /\ UNCHANGED <<nodes, edges, visited, edge_set, pending, expanded>>
    /\ UNCHANGED Untouched

\* the filtered_count local of get_filtered_neighborhood when it returns:
\* set to 0 at line 206 and never assigned again
ReportedFilteredCount(returned) == 0

\* the return statement of both entry points
ReturnResult ==
    /\ pc = "running" /\ pending = <<>> /\ stack = <<>>
    /\ pc' = "done"
    /\ result' = <<[nodes |-> nodes, edges |-> edges,
                    center_node |-> query.entity_id,
                    filtered_count |-> IF query.kind = "filtered"
                                       THEN ReportedFilteredCount(retval)
                                       ELSE 0]>>
    /\ UNCHANGED <<reg, query, nodes, edges, visited, edge_set, stack, pending,
                   retval, prev, expanded, edge_args, edge_out, search_args,
                   search_out, stats_out, related_out, extract_out, other, hass>>

\* the caller keeps the payload and is ready to call again
NextCall ==
    /\ pc = "done" /\ prev = <<>>
    /\ prev' = <<[query |-> query, nodes |-> Range(result[1].nodes),
                  edges |-> Range(result[1].edges)]>>
    /\ pc' = "idle"
    /\ result' = <<>>
    /\ UNCHANGED <<reg, query, nodes, edges, visited, edge_set, stack, pending,
                   retval, expanded, edge_args, edge_out, search_args,
                   search_out, stats_out, related_out, extract_out, other, hass>>

(***************************************************************************)
(* The setup of the integration (custom_components/ha_visualiser/          *)
(* __init__.py).  hass.data is "absent" when DOMAIN is not a key of        *)
(* hass.data, "empty" when hass.data[DOMAIN] is {} and "service" when it   *)
(* holds a graph_service; hass.panel says whether the frontend has the     *)
(* panel; hass.calls logs the calls of the two setup entry points.         *)
(***************************************************************************)
MaxSetups == 3

NotLoaded == [data |-> "absent", panel |-> FALSE, calls |-> <<>>]

\* what panel_custom.async_register_panel can do: register the panel, raise
\* ValueError("Overwriting panel ...") when the frontend has it already,
\* raise another ValueError, raise another exception
PanelOutcomes(panel) ==
    IF panel THEN {"overwriting", "error"}
    ELSE {"registered", "value_error", "error"}

\* where the construction of the service can raise: nowhere, in
\* GraphService(hass), in async_register_websocket_handlers(hass)
Faults == {"none", "GraphService", "handlers"}

\* the failure of the static path registration is swallowed (lines 60-73)
_ensure_panel_registered(panel, outcome) ==
    [result |-> outcome \in {"registered", "overwriting"},
     panel |-> panel \/ outcome = "registered"]

\* the outcome of a setup step: raised, or returned with a value
SetupOutcome(raised, returned, data, panel, ensured, panel_failed) ==
    [raised |-> raised, returned |-> returned, data |-> data, panel |-> panel,
     ensured |-> ensured, panel_failed |-> panel_failed]

_setup_integration(data, panel, fault, outcome) ==
    LET present == IF data = "absent" THEN "empty" ELSE data
        r == _ensure_panel_registered(panel, outcome)
    IN IF present = "service"
       THEN SetupOutcome(FALSE, r.result, present, r.panel, TRUE, ~r.result)
       ELSE IF fault = "GraphService"
       THEN SetupOutcome(TRUE, FALSE, present, panel, FALSE, FALSE)
       ELSE IF fault = "handlers"
       THEN SetupOutcome(TRUE, FALSE, "service", panel, FALSE, FALSE)
       ELSE SetupOutcome(FALSE, r.result, "service", r.panel, TRUE, ~r.result)

\* try: return await _setup_integration(...) except Exception: pop, False
TrySetupIntegration(data, panel, fault, outcome) ==
    LET s == _setup_integration(data, panel, fault, outcome)
    IN IF s.raised
       THEN [s EXCEPT !.data = "absent", !.returned = FALSE]
       ELSE s

\* the early return of an entry point
Skipped(data, panel) == SetupOutcome(FALSE, TRUE, data, panel, FALSE, FALSE)

async_setup(data, panel, fault, outcome) ==
    IF data # "absent" THEN Skipped(data, panel)
    ELSE TrySetupIntegration(data, panel, fault, outcome)

async_setup_entry(data, panel, fault, outcome) ==
    IF data = "service" THEN Skipped(data, panel)
    ELSE TrySetupIntegration(data, panel, fault, outcome)

GraphServiceVars ==
    <<reg, pc, query, nodes, edges, visited, edge_set, stack, pending, retval,
      result, prev, expanded, edge_args, edge_out, search_args, search_out,
      stats_out, related_out, extract_out, other>>

\* the host applies the outcome of a setup call and logs it
Called(entry, s) ==
    /\ hass' = [data |-> s.data, panel |-> s.panel,
                calls |-> Append(hass.calls,
                    [entry |-> entry, returned |-> s.returned,
                     ensured |-> s.ensured, panel_failed |-> s.panel_failed,
                     data |-> s.data, panel |-> s.panel])]
    /\ UNCHANGED GraphServiceVars

AsyncSetup ==
    /\ Len(hass.calls) < MaxSetups
    /\ \E fault \in Faults, outcome \in PanelOutcomes(hass.panel) :
          Called("async_setup",
                 async_setup(hass.data, hass.panel, fault, outcome))

AsyncSetupEntry ==
    /\ Len(hass.calls) < MaxSetups
    /\ \E fault \in Faults, outcome \in PanelOutcomes(hass.panel) :
          Called("async_setup_entry",
                 async_setup_entry(hass.data, hass.panel, fault, outcome))

\* async_unload_entry: DOMAIN is popped; the removal of the panel may raise,
\* which is logged and ignored
AsyncUnloadEntry ==
    /\ hass.calls # <<>>
    /\ \E removed \in BOOLEAN :
          hass' = [hass EXCEPT !.data = "absent",
                               !.panel = IF removed THEN FALSE ELSE @]
    /\ UNCHANGED GraphServiceVars

NextSetup == AsyncSetup \/ AsyncSetupEntry \/ AsyncUnloadEntry

(***************************************************************************)
(* The registries the model is run on.                                     *)
(***************************************************************************)
Kitchen == <<"Kitchen">>

EntryOf(device_id, area_id) ==
    [device_id |-> device_id, area_id |-> area_id, id |-> None,
     unique_id |-> None]

DeviceOf(area_id) ==
    [area_id |-> area_id, name |-> <<"Switch">>, name_by_user |-> <<>>,
     disabled_by |-> None]

Config(trigger_ids, action_ids) ==
    [triggers |-> <<EntityBlock(trigger_ids)>>,
     actions |-> <<EntityBlock(action_ids)>>, is_mapping |-> TRUE]

\* a "configuration" attribute that is a non-empty string instead of a mapping
NotAMapping == [Config(<<>>, <<>>) EXCEPT !.is_mapping = FALSE]

Registry(states, entries, devices, loc, config) ==
    [states |-> states, friendly |-> <<>>, entries |-> entries,
     devices |-> devices, areas |-> (A1 :> [name |-> Kitchen]),
     loc |-> loc, radius |-> <<>>, config |-> config, templates |-> <<>>]

OptDevice == {None, D1}
OptArea == {None, A1}

\* one device, one area, a light and a sensor, one automation and one zone
Registries ==
    {Registry({L1, S1, M1, Z1},
              (L1 :> EntryOf(ld, la)) @@ (S1 :> EntryOf(sd, sa)),
              (D1 :> DeviceOf(da)),
              IF lz THEN (Z1 :> 0) @@ (L1 :> 50) ELSE (Z1 :> 0),
              (M1 :> Config(tr, ac))) :
        ld \in OptDevice, la \in OptArea, sd \in OptDevice, sa \in OptArea,
        da \in OptArea, lz \in BOOLEAN,
        tr \in {<<>>, <<L1>>, <<L1, S1>>}, ac \in {<<>>, <<S1>>}}

FocusIds == {L1, S1, M1, Z1, DeviceNode(D1), AreaNode(A1),
             Gone, ZGone, DeviceNode(DGone), AreaNode(AGone)}

Filters(domain_filter, area_filter, relationship_filter) ==
    [domain_filter |-> domain_filter, area_filter |-> area_filter,
     relationship_filter |-> relationship_filter]

\* no filter, or one of the three filters alone
FilterChoices ==
    {Filters(<<>>, <<>>, <<>>), Filters(<<"light", "device">>, <<>>, <<>>),
     Filters(<<>>, <<<<"Hall">>>>, <<>>), Filters(<<>>, <<>>, <<"has">>)}

Blank ==
    /\ pc = "idle" /\ query = NoQuery
    /\ nodes = <<>> /\ edges = <<>> /\ visited = {} /\ edge_set = {}
    /\ stack = <<>> /\ pending = <<>> /\ retval = 0 /\ result = <<>>
    /\ prev = <<>> /\ expanded = <<>>

NoEdgeTest == edge_args = <<>> /\ edge_out = <<>>
NoSearch == search_args = <<>> /\ search_out = <<>>
NoApplication ==
    /\ stats_out = <<>> /\ related_out = {} /\ extract_out = <<>>
    /\ hass = NotLoaded
NoOther == other = <<>>

Init ==
    /\ reg \in Registries /\ Blank /\ NoEdgeTest /\ NoSearch
    /\ NoApplication /\ NoOther

Next ==
    \/ \E f \in FocusIds, d \in 0..MaxDepth : GetEntityNeighborhood(f, d)
    \/ \E f \in FocusIds, d \in 0..MaxDepth, fl \in FilterChoices :
          GetFilteredNeighborhood(f, d, fl)
    \/ AddEntityAndNeighbors
    \/ NextNeighbor
    \/ ReturnFromExpansion
    \/ AddEntityAndNeighborsFiltered
    \/ NextNeighborFiltered
    \/ ReturnFromExpansionFiltered
    \/ ReturnResult

Spec == Init /\ [][Next]_vars

(***************************************************************************)
(* Two successive calls of get_entity_neighborhood with the same arguments *)
(* on the same registries.                                                 *)
(***************************************************************************)
NextTwice ==
    \/ \E f \in FocusIds, d \in 0..MaxDepth : GetEntityNeighborhood(f, d)
    \/ AddEntityAndNeighbors
    \/ NextNeighbor
    \/ ReturnFromExpansion
    \/ ReturnResult
    \/ NextCall

SpecTwice == Init /\ [][NextTwice]_vars

(***************************************************************************)
(* _create_symmetrical_edge as a function of its three arguments.          *)
(***************************************************************************)
EdgeNodeIds == {L1, S1, M1, M2, Z1, DeviceNode(D1), AreaNode(A1)}

SomeRegistry ==
    Registry({L1, S1, M1, Z1},
             (L1 :> EntryOf(D1, None)) @@ (S1 :> EntryOf(None, A1)),
             (D1 :> DeviceOf(A1)), (Z1 :> 0), (M1 :> Config(<<L1>>, <<S1>>)))

InitEdge ==
    /\ reg = SomeRegistry /\ Blank /\ NoSearch /\ NoApplication /\ NoOther
    /\ edge_args \in {a \in EdgeNodeIds \X EdgeNodeIds \X AllTags : a[1] # a[2]}
    /\ edge_out = <<>>

\* the edge is computed from either side of the relationship
CreateEdgeBothWays ==
    /\ edge_out = <<>>
    /\ edge_out' =
           <<_create_symmetrical_edge(edge_args[1], edge_args[2], edge_args[3]),
             _create_symmetrical_edge(edge_args[2], edge_args[1], edge_args[3])>>
    /\ UNCHANGED <<reg, pc, query, nodes, edges, visited, edge_set, stack,
                   pending, retval, result, prev, expanded, edge_args,
                   search_args, search_out, stats_out, related_out,
                   extract_out, other, hass>>

SpecEdge == InitEdge /\ [][CreateEdgeBothWays]_vars

(***************************************************************************)
(* SearchIndex: search_entities.                                           *)
(***************************************************************************)
\* str.lower(), token by token
LowerToken(t) ==
    CASE t = "Kitchen" -> "kitchen"
      [] t = "Light" -> "light"
      [] t = "Switch" -> "switch"
      [] t = "Home" -> "home"
      [] OTHER -> t

Lower(str) == [i \in 1..Len(str) |-> LowerToken(str[i])]

\* needle in hay
Contains(hay, needle) ==
    \E i \in 0..(Len(hay) - Len(needle)) :
        SubSeq(hay, i + 1, i + Len(needle)) = needle

SearchResult(entity_id, friendly_name, domain, state) ==
    [entity_id |-> entity_id, friendly_name |-> friendly_name,
     domain |-> domain, state |-> state]

\* results.append(...); if len(results) >= limit: break -- over the matches
\* of one pass, in order
RECURSIVE AppendUntilLimit(_, _, _)
AppendUntilLimit(results, matches, limit) ==
    IF matches = <<>> THEN results
    ELSE LET appended == Append(results, Head(matches))
         IN IF Len(appended) >= limit THEN appended
            ELSE AppendUntilLimit(appended, Tail(matches), limit)

EntityMatches(query_lower) ==
    LET hit == SelectSeq(async_entity_ids,
                   LAMBDA e : \/ Contains(Lower(e), query_lower)
                              \/ Contains(Lower(FriendlyName(e)), query_lower))
    IN [i \in 1..Len(hit) |->
           SearchResult(hit[i], FriendlyName(hit[i]), SplitDomain(hit[i]),
                        "state")]

DeviceMatches(query_lower) ==
    LET hit == SelectSeq(devices_items,
                   LAMBDA d : Contains(Lower(DeviceName(d)), query_lower))
    IN [i \in 1..Len(hit) |->
           SearchResult(DeviceNode(hit[i]), <<"Device: ">> \o DeviceName(hit[i]),
                        "device",
                        IF Device(hit[i]).disabled_by = None
                        THEN "connected" ELSE "disabled")]

AreaMatches(query_lower) ==
    LET hit == SelectSeq(areas_items,
                   LAMBDA a : Contains(Lower(Area(a).name), query_lower))
    IN [i \in 1..Len(hit) |->
           SearchResult(AreaNode(hit[i]), <<"Area: ">> \o Area(hit[i]).name,
                        "area", "active")]

ZoneMatches(query_lower) ==
    LET zone_entities == SelectSeq(async_entity_ids,
                             LAMBDA e : StartsWith(e, "zone", "."))
        hit == SelectSeq(zone_entities,
                   LAMBDA z : \/ Contains(Lower(FriendlyName(z)), query_lower)
                              \/ Contains(Lower(z), query_lower))
    IN [i \in 1..Len(hit) |->
           SearchResult(hit[i], <<"Zone: ">> \o FriendlyName(hit[i]), "zone",
                        "state")]

\* a later pass runs only if len(results) < limit
LaterPass(results, matches, limit) ==
    IF Len(results) < limit THEN AppendUntilLimit(results, matches, limit)
    ELSE results

search_entities(search_query, limit) ==
    LET query_lower == Lower(search_query)
        r1 == AppendUntilLimit(<<>>, EntityMatches(query_lower), limit)
        r2 == LaterPass(r1, DeviceMatches(query_lower), limit)
        r3 == LaterPass(r2, AreaMatches(query_lower), limit)
    IN LaterPass(r3, ZoneMatches(query_lower), limit)

SearchQueries == {<<>>, <<"light">>, <<"KITCHEN">>, <<"zone">>, <<"nothing">>}

SearchRegistries ==
    {[Registry(states, <<>>, devices, <<>>, <<>>) EXCEPT !.friendly = friendly] :
        states \in SUBSET {L1, S1, Z1},
        devices \in {<<>>, (D1 :> DeviceOf(A1))},
        friendly \in {<<>>, (L1 :> <<"Kitchen", "Light">>) @@ (Z1 :> <<"Home">>)}}

InitSearch ==
    /\ reg \in SearchRegistries /\ Blank /\ NoEdgeTest /\ NoApplication
    /\ NoOther
    /\ search_args \in SearchQueries \X (0..MaxLimit)
    /\ search_out = <<>>

SearchEntities ==
    /\ search_out = <<>>
    /\ search_out' = <<search_entities(search_args[1], search_args[2])>>
    /\ UNCHANGED <<reg, pc, query, nodes, edges, visited, edge_set, stack,
                   pending, retval, result, prev, expanded, edge_args, edge_out,
                   search_args, stats_out, related_out, extract_out, other, hass>>

SpecSearch == InitSearch /\ [][SearchEntities]_vars

(***************************************************************************)
(* Two queries on one GraphService.  The variables pc .. expanded are the  *)
(* locals of the task that runs; other holds the locals of the task that   *)
(* is suspended, and the event loop may switch between two steps.          *)
(***************************************************************************)
TaskLocals ==
    [pc |-> pc, query |-> query, nodes |-> nodes, edges |-> edges,
     visited |-> visited, edge_set |-> edge_set, stack |-> stack,
     pending |-> pending, retval |-> retval, result |-> result,
     expanded |-> expanded]

BlankLocals ==
    [pc |-> "idle", query |-> NoQuery, nodes |-> <<>>, edges |-> <<>>,
     visited |-> {}, edge_set |-> {}, stack |-> <<>>, pending |-> <<>>,
     retval |-> 0, result |-> <<>>, expanded |-> <<>>]

\* A faulty variant: visited is kept on the service and shared by the tasks.
ResumeSharingVisited(task) ==
    /\ pc' = task.pc /\ query' = task.query /\ nodes' = task.nodes
    /\ edges' = task.edges /\ visited' = visited
    /\ edge_set' = task.edge_set /\ stack' = task.stack
    /\ pending' = task.pending /\ retval' = task.retval
    /\ result' = task.result /\ expanded' = task.expanded

\* a task resumes with the objects its own call allocated (lines 71-74 and
\* 202-206) and handed down the recursion as arguments
Resume(task) ==
    /\ pc' = task.pc /\ query' = task.query /\ nodes' = task.nodes
    /\ edges' = task.edges /\ visited' = task.visited
    /\ edge_set' = task.edge_set /\ stack' = task.stack
    /\ pending' = task.pending /\ retval' = task.retval
    /\ result' = task.result /\ expanded' = task.expanded

\* the running task is suspended at an await (or has not started, or has
\* finished) and the other one runs; other[2] records that both were under
\* way at some switch
SwitchTask ==
    /\ other # <<>>
    /\ Resume(other[1])
    /\ other' = <<TaskLocals,
                  other[2] \/ (pc = "running" /\ other[1].pc = "running")>>
    /\ UNCHANGED <<reg, prev, edge_args, edge_out, search_args, search_out,
                   stats_out, related_out, extract_out, hass>>

PairRegistries ==
    {Registry({L1, S1, M1, Z1},
              (L1 :> EntryOf(D1, None)) @@ (S1 :> EntryOf(None, A1)),
              (D1 :> DeviceOf(A1)), (Z1 :> 0), (M1 :> Config(tr, <<S1>>))) :
        tr \in {<<L1>>, <<L1, S1>>}}

PairFocusIds == {L1, M1}

InitPair ==
    /\ reg \in PairRegistries /\ Blank /\ NoEdgeTest /\ NoSearch
    /\ NoApplication
    /\ other = <<BlankLocals, FALSE>>

NextPair ==
    \/ \E f \in PairFocusIds, d \in 1..MaxDepth : GetEntityNeighborhood(f, d)
    \/ \E f \in PairFocusIds, d \in 1..MaxDepth :
          GetFilteredNeighborhood(f, d, Filters(<<"light", "device">>, <<>>, <<>>))
    \/ AddEntityAndNeighbors
    \/ NextNeighbor
    \/ ReturnFromExpansion
    \/ AddEntityAndNeighborsFiltered
    \/ NextNeighborFiltered
    \/ ReturnFromExpansionFiltered
    \/ ReturnResult
    \/ SwitchTask

SpecPair == InitPair /\ [][NextPair]_vars

(***************************************************************************)
(* The queries on registries whose automations may carry a configuration   *)
(* of an unexpected shape.                                                 *)
(***************************************************************************)
ConfigShapes ==
    {Config(<<L1>>, <<S1>>), NotAMapping,
     [Config(<<>>, <<S1>>) EXCEPT !.triggers = <<NotADict, EntityBlock(<<L1>>)>>]}

MalformedRegistries ==
    {Registry({L1, S1, M1, M2},
              (L1 :> EntryOf(ld, None)) @@ (S1 :> EntryOf(None, None)),
              (D1 :> DeviceOf(A1)), <<>>, (M1 :> c1) @@ (M2 :> c2)) :
        ld \in OptDevice, c1 \in ConfigShapes, c2 \in ConfigShapes}

InitMalformed ==
    /\ reg \in MalformedRegistries /\ Blank /\ NoEdgeTest /\ NoSearch
    /\ NoApplication /\ NoOther

SpecMalformed == InitMalformed /\ [][Next]_vars

(***************************************************************************)
(* The queries on registries with two automations, one of which may be     *)
(* triggered by the other.                                                 *)
(***************************************************************************)
AutomationRegistries ==
    {Registry({L1, S1, M1, M2},
              (L1 :> EntryOf(None, None)) @@ (S1 :> EntryOf(None, None)),
              (D1 :> DeviceOf(A1)), <<>>, (M1 :> Config(tr, ac)) @@ c2) :
        tr \in {<<L1>>, <<M2>>, <<L1, M2>>}, ac \in {<<>>, <<S1>>, <<L1>>},
        c2 \in {<<>>, (M2 :> Config(<<S1>>, <<>>))}}

InitAutomation ==
    /\ reg \in AutomationRegistries /\ Blank /\ NoEdgeTest /\ NoSearch
    /\ NoApplication /\ NoOther

SpecAutomation == InitAutomation /\ [][Next]_vars

(***************************************************************************)
(* The queries on registries with a template entity whose attributes       *)
(* reference other entities.                                               *)
(***************************************************************************)
TemplateRegistries ==
    {[Registry({L1, S1, M1, T1},
               (L1 :> EntryOf(ld, None)) @@ se, (D1 :> DeviceOf(A1)), <<>>,
               (M1 :> Config(<<L1>>, <<>>)))
         EXCEPT !.templates = (T1 :> refs), !.friendly = fr] :
        ld \in OptDevice, se \in {<<>>, (S1 :> EntryOf(None, None))},
        refs \in {{L1}, {S1}, {L1, S1}}, fr \in {<<>>, (T1 :> <<"T1">>)}}

InitTemplate ==
    /\ reg \in TemplateRegistries /\ Blank /\ NoEdgeTest /\ NoSearch
    /\ NoApplication /\ NoOther

SpecTemplate == InitTemplate /\ [][Next]_vars

(***************************************************************************)
(* get_graph_statistics.  A dict of counts is the list of its <<key, count>>*)
(* items in insertion order.                                               *)
(***************************************************************************)
\* counts[key] = counts.get(key, 0) + 1 for each key of the list, in order
RECURSIVE CountKeys(_)
CountKeys(keys) ==
    IF keys = <<>> THEN <<>>
    ELSE LET counts == CountKeys(SubSeq(keys, 1, Len(keys) - 1))
             key == keys[Len(keys)]
         IN IF \E i \in 1..Len(counts) : counts[i][1] = key
            THEN [i \in 1..Len(counts) |->
                     IF counts[i][1] = key THEN <<key, counts[i][2] + 1>>
                     ELSE counts[i]]
            ELSE Append(counts, <<key, 1>>)

Unknown == <<"Unknown">>

\* the key counted in area_counts for an entity: <<area_name>>, or <<>>
AreaCountKey(entity_id) ==
    IF ~HasEntry(entity_id) THEN <<>>
    ELSE LET e == Entry(entity_id)
             area_id == IF e.area_id = None /\ e.device_id # None
                        THEN IF HasDevice(e.device_id)
                             THEN Device(e.device_id).area_id ELSE None
                        ELSE e.area_id
         IN IF area_id = None THEN <<>>
            ELSE <<IF HasArea(area_id) THEN Area(area_id).name ELSE Unknown>>

\* the key counted in device_counts for an entity: <<device_name>>, or <<>>
DeviceCountKey(entity_id) ==
    IF ~HasEntry(entity_id) \/ Entry(entity_id).device_id = None THEN <<>>
    ELSE LET device_id == Entry(entity_id).device_id
         IN <<IF HasDevice(device_id)
              THEN IF Device(device_id).name_by_user # <<>>
                   THEN Device(device_id).name_by_user
                   ELSE Device(device_id).name
              ELSE Unknown>>

get_graph_statistics ==
    LET entity_ids == async_entity_ids
        domain_counts ==
            CountKeys([i \in 1..Len(entity_ids) |-> SplitDomain(entity_ids[i])])
        area_counts ==
            CountKeys(Flatten([i \in 1..Len(entity_ids) |->
                                  AreaCountKey(entity_ids[i])]))
        device_counts ==
            CountKeys(Flatten([i \in 1..Len(entity_ids) |->
                                  DeviceCountKey(entity_ids[i])]))
    IN [total_entities |-> Len(entity_ids), domain_counts |-> domain_counts,
        area_counts |-> area_counts, device_counts |-> device_counts,
        total_areas |-> Len(area_counts), total_devices |-> Len(device_counts),
        total_domains |-> Len(domain_counts)]

Hall == <<"Hall">>
Plug == <<"Plug">>

\* two devices, which may carry the same name, and two areas
StatsRegistries ==
    {[Registry({L1, S1, M1},
               (L1 :> EntryOf(ld, la)) @@ (S1 :> EntryOf(sd, sa)),
               (D1 :> DeviceOf(da1)) @@ (D2 :> [DeviceOf(da2) EXCEPT !.name = dn]),
               <<>>, <<>>)
         EXCEPT !.areas = (A1 :> [name |-> Kitchen]) @@ (A2 :> [name |-> Hall])] :
        ld \in {None, D1}, la \in {None, A1}, sd \in {None, D1, D2},
        sa \in {None, A2}, da1 \in {None, A1}, da2 \in {None, A2},
        dn \in {<<"Switch">>, Plug}}

InitStats ==
    /\ reg \in StatsRegistries /\ Blank /\ NoEdgeTest /\ NoSearch /\ NoOther
    /\ NoApplication

GetGraphStatistics ==
    /\ stats_out = <<>>
    /\ stats_out' = <<get_graph_statistics>>
    /\ UNCHANGED <<reg, pc, query, nodes, edges, visited, edge_set, stack,
                   pending, retval, result, prev, expanded, edge_args, edge_out,
                   search_args, search_out, related_out, extract_out, other, hass>>

SpecStats == InitStats /\ [][GetGraphStatistics]_vars

(***************************************************************************)
(* _find_related_entities applied to single nodes, on registries whose     *)
(* automation references an entity in each of the ways a configuration     *)
(* can.                                                                    *)
(***************************************************************************)
Uuid == <<"0123456789abcdef0123456789abcdef">>

\* the trigger blocks: entity_id as a string and as a list, data.entity_id,
\* target.entity_id, device_id, area_id, entity_id as a unique identifier
ReferenceWays ==
    {Block(<<L1>>, FALSE, <<>>, <<>>, None, None),
     EntityBlock(<<L1, S1>>),
     Block(<<>>, TRUE, <<L1>>, <<>>, None, None),
     Block(<<>>, TRUE, <<>>, <<L1>>, None, None),
     Block(<<>>, TRUE, <<>>, <<>>, D1, None),
     Block(<<>>, TRUE, <<>>, <<>>, None, A1),
     Block(<<Uuid>>, FALSE, <<>>, <<>>, None, None)}

ReferenceRegistries ==
    {Registry({L1, S1, M1},
              (L1 :> [EntryOf(ld, la) EXCEPT !.id = id])
                  @@ (S1 :> EntryOf(None, None)),
              (D1 :> DeviceOf(None)), <<>>,
              (M1 :> [Config(<<>>, ac) EXCEPT !.triggers = <<way>>])) :
        ld \in OptDevice, la \in OptArea, id \in {None, Uuid[1]},
        way \in ReferenceWays, ac \in {<<S1>>, <<L1>>}}

ExpandedIds == {L1, S1, M1}

InitReferences ==
    /\ reg \in ReferenceRegistries /\ Blank /\ NoEdgeTest /\ NoSearch
    /\ NoApplication /\ NoOther

\* related = await self._find_related_entities(entity_id)
FindRelatedEntities(entity_id) ==
    /\ \A r \in related_out : r.entity_id # entity_id
    /\ ~RaisesAttributeError(entity_id)
    /\ \E to \in Orders(TriggerEntities(entity_id)),
          ao \in Orders(ActionEntities(entity_id)) :
          related_out' = related_out \cup
              {[entity_id |-> entity_id,
                related |-> _find_related_entities(entity_id, to, ao)]}
    /\ UNCHANGED <<reg, pc, query, nodes, edges, visited, edge_set, stack,
                   pending, retval, result, prev, expanded, edge_args, edge_out,
                   search_args, search_out, stats_out, extract_out, other, hass>>

NextReferences == \E e \in ExpandedIds : FindRelatedEntities(e)

SpecReferences == InitReferences /\ [][NextReferences]_vars

(***************************************************************************)
(* _find_related_entities on registries with a zone and entities that      *)
(* carry a location, inside, on the boundary of and outside the zone.      *)
(***************************************************************************)
OptEntry == {<<>>, EntryOf(None, None)}

\* the entity-registry entries: an id with the entry <<>> has none
Entries(l1_entry, s1_entry) ==
    (IF l1_entry = <<>> THEN <<>> ELSE (L1 :> l1_entry))
    @@ (IF s1_entry = <<>> THEN <<>> ELSE (S1 :> s1_entry))

ZoneRegistries ==
    {[Registry({L1, S1, Z1}, Entries(le, se), (D1 :> DeviceOf(None)),
               (Z1 :> 0) @@ ll @@ sl, <<>>)
         EXCEPT !.radius = rad] :
        le \in OptEntry, se \in OptEntry,
        ll \in {<<>>, (L1 :> 50), (L1 :> DefaultRadius), (L1 :> DefaultRadius + 1)},
        sl \in {<<>>, (S1 :> DefaultRadius)},
        rad \in {<<>>, (Z1 :> 50), (Z1 :> 49)}}

InitZones ==
    /\ reg \in ZoneRegistries /\ Blank /\ NoEdgeTest /\ NoSearch
    /\ NoApplication /\ NoOther

NextZones == \E e \in {L1, S1, Z1} : FindRelatedEntities(e)

SpecZones == InitZones /\ [][NextZones]_vars

(***************************************************************************)
(* _extract_entities_from_config applied to trigger/action lists that      *)
(* name entities by id and by unique identifier.                           *)
(***************************************************************************)
ExtractRegistries ==
    {Registry({L1, S1, M1},
              (L1 :> [EntryOf(ld, la) EXCEPT !.id = id, !.unique_id = uid])
                  @@ (S1 :> EntryOf(None, None)),
              (D1 :> DeviceOf(None)), <<>>, <<>>) :
        ld \in OptDevice, la \in OptArea, id \in {None, Uuid[1]},
        uid \in {None, Uuid[1]}}

\* the unique identifier as a string, in a list, under data and under target
UuidWays ==
    {EntityBlock(<<Uuid, S1>>),
     Block(<<>>, TRUE, <<Uuid>>, <<>>, None, None),
     Block(<<>>, TRUE, <<>>, <<Uuid>>, None, None),
     Block(<<Uuid>>, FALSE, <<>>, <<>>, D1, None)}

ConfigLists ==
    {<<>>} \cup {<<b>> : b \in ReferenceWays \cup UuidWays}
           \cup {<<NotADict, b>> : b \in UuidWays}

InitExtract ==
    /\ reg \in ExtractRegistries /\ Blank /\ NoEdgeTest /\ NoSearch
    /\ NoApplication /\ NoOther

\* entities = self._extract_entities_from_config(config_list)
ExtractEntitiesFromConfig(config_list) ==
    /\ extract_out = <<>>
    /\ extract_out' = <<[config_list |-> config_list,
                         entities |-> _extract_entities_from_config(config_list)]>>
    /\ UNCHANGED <<reg, pc, query, nodes, edges, visited, edge_set, stack,
                   pending, retval, result, prev, expanded, edge_args, edge_out,
                   search_args, search_out, stats_out, related_out, other, hass>>

NextExtract == \E c \in ConfigLists : ExtractEntitiesFromConfig(c)

SpecExtract == InitExtract /\ [][NextExtract]_vars

(***************************************************************************)
(* Registries with two areas, for the area filter: the light is assigned   *)
(* to an area or to none, the sensor sits on a device in an area or in     *)
(* none.                                                                   *)
(***************************************************************************)
OptAreas == {None, A1, A2}

AreaRegistries ==
    {[Registry({L1, S1, M1, Z1},
               (L1 :> EntryOf(None, la)) @@ (S1 :> EntryOf(D1, sa)),
               (D1 :> DeviceOf(da)), (Z1 :> 0),
               (M1 :> Config(<<L1>>, <<S1>>)))
        EXCEPT !.areas = (A1 :> [name |-> Kitchen]) @@ (A2 :> [name |-> Hall])] :
        la \in OptAreas, sa \in OptAreas, da \in OptAreas}

InitArea ==
    /\ reg \in AreaRegistries /\ Blank /\ NoEdgeTest /\ NoSearch
    /\ NoApplication /\ NoOther

SpecArea == InitArea /\ [][Next]_vars

(***************************************************************************)
(* The setup entry points, called by the host in any order.                *)
(***************************************************************************)
InitSetup ==
    /\ reg = SomeRegistry /\ Blank /\ NoEdgeTest /\ NoSearch
    /\ NoApplication /\ NoOther

SpecSetup == InitSetup /\ [][NextSetup]_vars

(***************************************************************************)
(* Registries with references to things that no longer exist: the          *)
(* automation names a deleted entity, the entry of the light names a       *)
(* deleted device or a deleted area.                                       *)
(***************************************************************************)
StaleRegistries ==
    {Registry({L1, S1, M1, Z1},
              (L1 :> EntryOf(ld, la)) @@ (S1 :> EntryOf(D1, None)),
              (D1 :> DeviceOf(A1)), (Z1 :> 0),
              (M1 :> Config(tr, <<S1>>))) :
        ld \in {None, D1, DGone}, la \in {None, A1, AGone},
        tr \in {<<L1>>, <<Gone>>, <<L1, Gone>>}}

InitStale ==
    /\ reg \in StaleRegistries /\ Blank /\ NoEdgeTest /\ NoSearch
    /\ NoApplication /\ NoOther

SpecStale == InitStale /\ [][Next]_vars

(***************************************************************************)
(* get_entity_neighborhood(focus, d) followed by                           *)
(* get_entity_neighborhood(focus, d + 1) on the same registries.  The      *)
(* automation has one trigger and one action, so that the order of its     *)
(* related entities is fixed.                                              *)
(***************************************************************************)
DeeperRegistries ==
    {Registry({L1, S1, M1, Z1},
              (L1 :> EntryOf(ld, la)) @@ (S1 :> EntryOf(sd, sa)),
              (D1 :> DeviceOf(da)), (Z1 :> 0),
              (M1 :> Config(<<L1>>, <<S1>>))) :
        ld \in OptDevice, la \in OptArea, sd \in OptDevice, sa \in OptArea,
        da \in OptArea}

InitDeeper ==
    /\ reg \in DeeperRegistries /\ Blank /\ NoEdgeTest /\ NoSearch
    /\ NoApplication /\ NoOther

\* the second call: same focus, max_depth + 1
GetEntityNeighborhoodDeeper ==
    /\ prev # <<>>
    /\ Start([prev[1].query EXCEPT !.max_depth = @ + 1])

NextDeeper ==
    \/ /\ prev = <<>>
       /\ \E f \in FocusIds, d \in 0..MaxDepth : GetEntityNeighborhood(f, d)
    \/ GetEntityNeighborhoodDeeper
    \/ AddEntityAndNeighbors
    \/ NextNeighbor
    \/ ReturnFromExpansion
    \/ ReturnResult
    \/ NextCall

SpecDeeper == InitDeeper /\ [][NextDeeper]_vars

(***************************************************************************)
(* One query of either kind, run to its end: the event loop keeps          *)
(* resuming the coroutine, so every enabled step of the traversal is       *)
(* eventually taken.  max_depth ranges over -1 as well.                    *)
(***************************************************************************)
Step ==
    \/ AddEntityAndNeighbors
    \/ NextNeighbor
    \/ ReturnFromExpansion
    \/ AddEntityAndNeighborsFiltered
    \/ NextNeighborFiltered
    \/ ReturnFromExpansionFiltered
    \/ ReturnResult

NextToEnd ==
    \/ \E f \in FocusIds, d \in -1..MaxDepth : GetEntityNeighborhood(f, d)
    \/ \E f \in FocusIds, d \in -1..MaxDepth, fl \in FilterChoices :
          GetFilteredNeighborhood(f, d, fl)
    \/ Step

SpecToEnd == InitDeeper /\ [][NextToEnd]_vars /\ WF_vars(Step)

(***************************************************************************)
(* Registries in which a node is related to itself: the zone lies within   *)
(* its own radius and the automation names itself among its triggers and   *)
(* actions.                                                                *)
(***************************************************************************)
SelfRegistries ==
    {Registry({L1, S1, M1, Z1},
              (L1 :> EntryOf(ld, la)) @@ (S1 :> EntryOf(D1, None)),
              (D1 :> DeviceOf(A1)),
              IF lz THEN (Z1 :> 0) @@ (L1 :> 50) ELSE (Z1 :> 0),
              (M1 :> Config(tr, ac))) :
        ld \in OptDevice, la \in OptArea, lz \in BOOLEAN,
        tr \in {<<M1>>, <<L1, M1>>}, ac \in {<<M1>>, <<M1, S1>>}}

InitSelf ==
    /\ reg \in SelfRegistries /\ Blank /\ NoEdgeTest /\ NoSearch
    /\ NoApplication /\ NoOther

SpecSelf == InitSelf /\ [][Next]_vars

(***************************************************************************)
(* Properties of the neighborhood queries.                                 *)
(***************************************************************************)
Done == pc = "done"
ResultNodeIds == {n.id : n \in Range(result[1].nodes)}
ResultEdges == Range(result[1].edges)
HasEdge(f, t) == \E e \in ResultEdges : e.from_node = f /\ e.to_node = t

\* the entities with a state that sit on device d
EntitiesOn(d) == {e \in reg.states : HasEntry(e) /\ Entry(e).device_id = d}

\* C2 (as claimed): for a device D in area A with an entity E on D, the
\* depth-2 neighborhood of E, of device:D and of area:A contains the edges
\* area:A -> device:D and device:D -> E.
C2_ContainmentDirection ==
    \A e \in EntitiesOn(D1) :
        (/\ Done /\ query.kind = "plain" /\ query.max_depth = 2
         /\ Device(D1).area_id = A1
         /\ query.entity_id \in {e, DeviceNode(D1), AreaNode(A1)})
        => /\ HasEdge(AreaNode(A1), DeviceNode(D1))
           /\ HasEdge(DeviceNode(D1), e)

\* the nodes within k recorded edges of the focus, direction ignored
RECURSIVE WithinEdges(_)
WithinEdges(k) ==
    IF k = 0 THEN {query.entity_id}
    ELSE LET inner == WithinEdges(k - 1)
         IN inner \cup {e.to_node : e \in {x \in ResultEdges : x.from_node \in inner}}
                  \cup {e.from_node : e \in {x \in ResultEdges : x.to_node \in inner}}

\* C3: for max_depth = d every node of the result of either query is joined
\* to the focus by a path of at most d recorded edges, direction ignored.
C3_DepthBound == Done => ResultNodeIds \subseteq WithinEdges(query.max_depth)

\* a result with a node exactly max_depth = 2 edges away from the focus
C3_Witness ==
    /\ Done /\ query.max_depth = 2
    /\ \E n \in ResultNodeIds : n \notin WithinEdges(1)

\* the ids _find_related_entities reports for x (the order does not matter)
RelatedIds(x) ==
    {p[1] : p \in Range(_find_related_entities(x,
                      CHOOSE s \in Orders(TriggerEntities(x)) : TRUE,
                      CHOOSE s \in Orders(ActionEntities(x)) : TRUE))}

\* the nodes at distance at most k from the focus in the raw relationship
\* graph, going through resolvable nodes only
RECURSIVE Ball(_)
Ball(k) ==
    IF k = 0 THEN {query.entity_id}
    ELSE LET inner == Ball(k - 1)
         IN inner \cup UNION {RelatedIds(x) :
                                 x \in {y \in inner : _create_node(y) # <<>>}}

\* C4 (as claimed): the result of get_entity_neighborhood(focus, d) contains
\* every resolvable node at distance at most d from the focus in the raw
\* relationship graph.
C4_Completeness ==
    (Done /\ query.kind = "plain")
    => \A n \in Ball(query.max_depth) :
           _create_node(n) # <<>> => n \in ResultNodeIds

EdgeIdentity(e) == <<e.from_node, e.to_node, e.relationship_type>>

\* C5: the (from_node, to_node, relationship_type) triples of the edges of a
\* result are pairwise distinct.
C5_NoDuplicateEdges ==
    Done => \A i, j \in 1..Len(result[1].edges) :
                EdgeIdentity(result[1].edges[i]) = EdgeIdentity(result[1].edges[j])
                => i = j

\* a result whose focus reported the same relationship twice
C5_Witness ==
    /\ Done /\ query.entity_id = AreaNode(A1) /\ query.max_depth >= 1
    /\ \E i, j \in 1..Len(_find_related_entities(AreaNode(A1), <<>>, <<>>)) :
           /\ i # j
           /\ _find_related_entities(AreaNode(A1), <<>>, <<>>)[i]
                = _find_related_entities(AreaNode(A1), <<>>, <<>>)[j]
    /\ Len(result[1].edges) >= 2

\* the focus ids the claim calls unresolvable
NotFoundId(id) ==
    IF id[1] = "device" /\ id[2] = ":" THEN id[3] \notin DOMAIN reg.devices
    ELSE IF id[1] = "area" /\ id[2] = ":" THEN id[3] \notin DOMAIN reg.areas
    ELSE id \notin reg.states

\* C7: a call of either query whose focus id does not resolve ends with the
\* not-found error before any node is visited, and yields no result.
C7_NotFound ==
    (query.kind # "none" /\ NotFoundId(query.entity_id))
    => /\ pc = "error" /\ result = <<>>
       /\ visited = {} /\ nodes = <<>> /\ edges = <<>> /\ pending = <<>>

\* a filtered call on a zone id without a state has raised
C7_Witness ==
    /\ pc = "error" /\ query.kind = "filtered" /\ query.entity_id = ZGone

\* C8 (as claimed): the filtered_count of the payload is the number of
\* rejected candidates, which the recursion counts and returns.
C8_FilteredCount ==
    (Done /\ query.kind = "filtered") => result[1].filtered_count = retval

\* C9: with a non-empty domain_filter every node of the result has its
\* domain in the filter, and so has the node of every edge endpoint.
C9_DomainFilter ==
    (Done /\ query.kind = "filtered" /\ query.domain_filter # <<>>)
    => /\ \A n \in Range(result[1].nodes) :
              n.domain \in Range(query.domain_filter)
       /\ \A e \in ResultEdges : \A x \in {e.from_node, e.to_node} :
              \A n \in Range(_create_node(x)) :
                  n.domain \in Range(query.domain_filter)

\* a filtered result with an edge, from which a neighbor was rejected
C9_Witness ==
    /\ Done /\ query.kind = "filtered" /\ query.domain_filter # <<>>
    /\ query.relationship_filter = <<>> /\ query.area_filter = <<>>
    /\ retval > 0 /\ ResultEdges # {}

(***************************************************************************)
(* Properties of _create_symmetrical_edge, of repeated calls and of the    *)
(* search.                                                                 *)
(***************************************************************************)
\* C1 (as claimed): for two distinct node ids A, B and a tag T the edges
\* _create_symmetrical_edge(A, B, T) and _create_symmetrical_edge(B, A, T)
\* have the same from_node, to_node, relationship_type and label.
C1_EdgeSymmetry == edge_out # <<>> => edge_out[1] = edge_out[2]

\* C6 (as claimed): two calls of get_entity_neighborhood with the same
\* arguments on the same registries return the same set of nodes and the
\* same set of edges, in whatever order the sets of referenced entities are
\* iterated.
C6_Idempotence ==
    (Done /\ prev # <<>>)
    => /\ prev[1].nodes = Range(result[1].nodes)
       /\ prev[1].edges = Range(result[1].edges)

\* C10 (as claimed): search_entities(query, limit) returns at most limit
\* results for every limit >= 0.
C10_SearchLimit == search_out # <<>> => Len(search_out[1]) <= search_args[2]

(***************************************************************************)
(* Properties of get_graph_statistics.                                     *)
(***************************************************************************)
\* the known entities that have a registry entry
KnownEntries == {e \in reg.states : HasEntry(e)}

\* the devices that own at least one known entity
OwningDevices ==
    {Entry(e).device_id : e \in {x \in KnownEntries : Entry(x).device_id # None}}

\* the area an entity resolves to, directly or through its device, or None
ResolvedArea(e) ==
    IF Entry(e).area_id # None THEN Entry(e).area_id
    ELSE IF Entry(e).device_id # None /\ HasDevice(Entry(e).device_id)
         THEN Device(Entry(e).device_id).area_id
         ELSE None

\* C11 (as claimed): total_devices is the number of distinct devices that own
\* at least one known entity, and total_areas the number of distinct areas
\* that at least one known entity resolves to.
C11_StatisticsTotals ==
    stats_out # <<>>
    => /\ stats_out[1].total_devices = Cardinality(OwningDevices)
       /\ stats_out[1].total_areas
            = Cardinality({ResolvedArea(e) : e \in KnownEntries} \ {None})

(***************************************************************************)
(* Properties of the queries on malformed automation configurations.       *)
(***************************************************************************)
\* C12 (as claimed): whatever the shape of the automations' configurations,
\* a query on a resolvable focus never ends with an exception reaching the
\* caller.
C12_MalformedAbsorbed == Resolves(query.entity_id) => pc # "raised"

(***************************************************************************)
(* Query isolation.  The reference is the recursion run from call to       *)
(* return without interruption: the set of traversal states each call can  *)
(* end in, over the iteration orders of the sets of referenced entities.   *)
(***************************************************************************)
EmptyTraversal == [nodes |-> <<>>, edges |-> <<>>, visited |-> {}, edge_set |-> {}]

\* if edge_key not in edge_set: edges.append(edge); edge_set.add(edge_key)
WithEdge(t, edge) ==
    IF EdgeKey(edge) \notin t.edge_set
    THEN [t EXCEPT !.edges = Append(@, edge),
                   !.edge_set = @ \cup {EdgeKey(edge)}]
    ELSE t

RECURSIVE AloneVisit(_, _, _, _)
RECURSIVE AloneLoop(_, _, _, _, _)
RECURSIVE AloneStep(_, _, _, _, _)

\* _add_entity_and_neighbors[_filtered](entity_id, ..., depth) of query q
AloneVisit(q, t, entity_id, depth) ==
    IF entity_id \in t.visited \/ depth < 0 THEN {t}
    ELSE LET v == [t EXCEPT !.visited = @ \cup {entity_id}]
             node == _create_node(entity_id)
             kept == /\ node # <<>>
                     /\ \/ q.kind = "plain"
                        \/ _passes_filters(node[1], q.domain_filter,
                                           q.area_filter)
         IN IF ~kept THEN {v}
            ELSE IF depth = 0 THEN {[v EXCEPT !.nodes = PutNode(@, node[1])]}
            ELSE UNION {AloneLoop(q, {[v EXCEPT !.nodes = PutNode(@, node[1])]},
                                  _find_related_entities(entity_id, to, ao),
                                  entity_id, depth) :
                           to \in Orders(TriggerEntities(entity_id)),
                           ao \in Orders(ActionEntities(entity_id))}

\* the loop over related_entities, from each of the states ts
AloneLoop(q, ts, related, entity_id, depth) ==
    IF related = <<>> THEN ts
    ELSE AloneLoop(q,
                   UNION {AloneStep(q, t, Head(related), entity_id, depth) :
                             t \in ts},
                   Tail(related), entity_id, depth)

\* one iteration of the loop
AloneStep(q, t, pair, entity_id, depth) ==
    LET edge == _create_symmetrical_edge(entity_id, pair[1], pair[2])
        related_node == _create_node(pair[1])
    IN IF q.kind = "plain"
       THEN IF pair[1] \in t.visited THEN {t}
            ELSE AloneVisit(q, WithEdge(t, edge), pair[1], depth - 1)
       ELSE IF /\ q.relationship_filter # <<>>
               /\ ~\E f \in Range(q.relationship_filter) : TagContains(pair[2], f)
            THEN {t}
       ELSE IF pair[1] \in t.visited THEN {t}
       ELSE IF related_node # <<>>
               /\ _passes_filters(related_node[1], q.domain_filter,
                                  q.area_filter)
            THEN AloneVisit(q, WithEdge(t, edge), pair[1], depth - 1)
       ELSE {t}

\* the (nodes, edges) a query can return when it runs alone
AloneResults(q) ==
    {[nodes |-> t.nodes, edges |-> t.edges] :
        t \in AloneVisit(q, EmptyTraversal, q.entity_id, q.max_depth)}

TaskIsolated(task) ==
    task.pc = "done"
    => [nodes |-> task.result[1].nodes, edges |-> task.result[1].edges]
          \in AloneResults(task.query)

\* C13: when two queries run on one service and are interleaved at their
\* suspension points, each of them returns a result that it can return when
\* it runs alone on the same registries.
C13_QueryIsolation ==
    other # <<>> => TaskIsolated(TaskLocals) /\ TaskIsolated(other[1])

\* both queries have returned a graph with an edge, after having been under
\* way at the same time
C13_Witness ==
    /\ other # <<>> /\ other[2]
    /\ pc = "done" /\ other[1].pc = "done"
    /\ result[1].edges # <<>> /\ other[1].result[1].edges # <<>>
    /\ query # other[1].query

(***************************************************************************)
(* Properties of the automation edges.                                     *)
(***************************************************************************)
\* C14 (as claimed): every automation_trigger edge of a result goes from an
\* entity referenced in the trigger configuration of an automation to that
\* automation, also when the referenced entity is itself an automation.
C14_TriggerDirection ==
    Done => \A e \in ResultEdges :
                e.relationship_type = "automation_trigger"
                => /\ StartsWith(e.to_node, "automation", ".")
                   /\ HasConfig(e.to_node)
                   /\ e.from_node
                        \in _extract_entities_from_config(Triggers(e.to_node))

(***************************************************************************)
(* Properties of the template edges.                                       *)
(***************************************************************************)
\* C15 (as claimed): every edge with a "template:..." relationship goes from
\* the template entity whose attributes hold the reference to the entity it
\* references, and is labelled "uses".
C15_TemplateDirection ==
    Done => \A e \in ResultEdges :
                e.relationship_type \in TemplateTags
                => /\ e.from_node \in DOMAIN reg.templates
                   /\ e.to_node \in reg.templates[e.from_node]
                   /\ e.label = "uses"

(***************************************************************************)
(* Properties of the containment edges.                                    *)
(***************************************************************************)
\* C16 (as claimed): a containment edge is labelled "contains" when its
\* from_node is an area or a zone and "has" when its from_node is a device.
C16_ContainmentLabels ==
    Done => \A e \in ResultEdges :
                e.relationship_type \in ContainmentTags
                => /\ (StartsWith(e.from_node, "area", ":")
                       \/ StartsWith(e.from_node, "zone", "."))
                      => e.label = "contains"
                   /\ StartsWith(e.from_node, "device", ":") => e.label = "has"

(***************************************************************************)
(* Properties of _find_related_entities.                                   *)
(***************************************************************************)
WasExpanded(x) == \E r \in related_out : r.entity_id = x

\* expanding x reported (y, tag)
Reported(x, y, tag) ==
    \E r \in related_out : r.entity_id = x /\ <<y, tag>> \in Range(r.related)

AutomationTags == {"automation_trigger", "automation_action"}

Automations == {x \in reg.states : StartsWith(x, "automation", ".")}

\* C17 (as claimed): an automation M reports an entity E with a tag exactly
\* when E reports M with that tag, in whichever way the configuration of M
\* references E.
C17_SymmetricDiscovery ==
    \A m \in Automations, e \in reg.states, tag \in AutomationTags :
        (e # m /\ WasExpanded(m) /\ WasExpanded(e))
        => (Reported(m, e, tag) <=> Reported(e, m, tag))

\* the tags under which expanding x reported y, one per report
ReportsOf(x, y) ==
    UNION {{<<i, r.related[i][2]>> : i \in {j \in 1..Len(r.related) :
                                               r.related[j][1] = y}} :
              r \in {z \in related_out : z.entity_id = x}}

OnlyAsTrigger(x, y) ==
    /\ Cardinality(ReportsOf(x, y)) = 1
    /\ \A p \in ReportsOf(x, y) : p[2] = "automation_trigger"

\* C18 (as claimed): when the triggers and the actions of an automation M
\* both reference an entity E, expanding M reports E exactly once, as
\* automation_trigger, and expanding E reports M exactly once, as
\* automation_trigger.
C18_TriggerWins ==
    \A m \in Automations, e \in reg.states :
        (/\ e # m /\ HasConfig(m)
         /\ e \in _extract_entities_from_config(Triggers(m))
         /\ e \in _extract_entities_from_config(Actions(m)))
        => /\ WasExpanded(m) => OnlyAsTrigger(m, e)
           /\ WasExpanded(e) => OnlyAsTrigger(e, m)

\* the zones with coordinates and the other entities that carry a location
LocatedZones == {z \in reg.states : StartsWith(z, "zone", ".") /\ HasLocation(z)}
LocatedEntities ==
    {e \in reg.states : ~StartsWith(e, "zone", ".") /\ HasLocation(e)}

Inside(e, z) == _calculate_distance(reg.loc[e], reg.loc[z]) <= ZoneRadius(z)

\* C19 (as claimed): for a zone Z with coordinates and an entity E with a
\* location, with or without a registry entry, expanding E reports
\* (Z, in_zone) exactly when distance(E, Z) <= radius(Z), and expanding Z
\* reports (E, zone_contains) exactly when distance(E, Z) <= radius(Z).
C19_ZoneMembership ==
    \A z \in LocatedZones, e \in LocatedEntities :
        /\ WasExpanded(e) => (Reported(e, z, "in_zone") <=> Inside(e, z))
        /\ WasExpanded(z) => (Reported(z, e, "zone_contains") <=> Inside(e, z))

(***************************************************************************)
(* Properties of _extract_entities_from_config.                            *)
(***************************************************************************)
\* the strings given under entity_id, data.entity_id and target.entity_id
GivenIds(config_list) ==
    UNION {Range(b.entity_id) \cup Range(b.data) \cup Range(b.target) :
              b \in {x \in Range(config_list) : x.is_dict}}

\* C20 (as claimed): the set returned by _extract_entities_from_config holds
\* no bare unique identifier; an identifier given under entity_id,
\* data.entity_id or target.entity_id that resolves is represented by the
\* entity id it resolves to.
C20_UuidsDropped ==
    extract_out # <<>>
    => /\ \A x \in extract_out[1].entities : ~IsUuid(x)
       /\ \A x \in GivenIds(extract_out[1].config_list) :
              (IsUuid(x) /\ _resolve_entity_uuid(x) # <<>>)
              => _resolve_entity_uuid(x) \in extract_out[1].entities

(***************************************************************************)
(* Properties of the filtered traversal and of the shape of the results.   *)
(***************************************************************************)
\* node and self._passes_filters(node, domain_filter, area_filter) for id n
Passes(n) ==
    /\ _create_node(n) # <<>>
    /\ _passes_filters(_create_node(n)[1], query.domain_filter,
                       query.area_filter)

\* the nodes at distance at most k from the focus in the raw relationship
\* graph, going only through nodes that pass the domain and area filters
RECURSIVE OpenBall(_)
OpenBall(k) ==
    IF k = 0 THEN {query.entity_id}
    ELSE LET inner == OpenBall(k - 1)
         IN inner \cup UNION {RelatedIds(x) : x \in {y \in inner : Passes(y)}}

\* C21 (as claimed): in a filtered query without relationship filter whose
\* focus passes the filters, a node that passes the domain and area filters
\* and lies within max_depth hops of the focus only through a node that
\* fails them is in the result.
C21_NotBlocked ==
    (/\ Done /\ query.kind = "filtered" /\ query.relationship_filter = <<>>
     /\ Passes(query.entity_id))
    => \A n \in Ball(query.max_depth) \ OpenBall(query.max_depth) :
           Passes(n) => n \in ResultNodeIds

\* what the code does instead: nothing beyond a rejected node is reached
BlockedByRejected ==
    (Done /\ query.kind = "filtered")
    => ResultNodeIds \subseteq OpenBall(query.max_depth)

\* C22 (as claimed): with a non-empty area_filter every node of the result
\* has an area name, and that name is in the filter.
C22_AreaFilter ==
    (Done /\ query.kind = "filtered" /\ query.area_filter # <<>>)
    => \A n \in Range(result[1].nodes) :
           n.area # <<>> /\ n.area \in Range(query.area_filter)

\* C22 (amended): with a non-empty area_filter every node of the result that
\* has an area name has one in the filter, and so has the node of every edge
\* endpoint; a node without area passes.
C22_AreaFilterKnownAreas ==
    (Done /\ query.kind = "filtered" /\ query.area_filter # <<>>)
    => /\ \A n \in Range(result[1].nodes) :
              n.area # <<>> => n.area \in Range(query.area_filter)
       /\ \A e \in ResultEdges : \A x \in {e.from_node, e.to_node} :
              \A n \in Range(_create_node(x)) :
                  n.area # <<>> => n.area \in Range(query.area_filter)

\* a result under an area filter with a node of the filter's area and a node
\* without area, from which a neighbor of another area was rejected
C22_Witness ==
    /\ Done /\ query.kind = "filtered" /\ query.area_filter = <<Hall>>
    /\ query.domain_filter = <<>> /\ query.relationship_filter = <<>>
    /\ \E n \in Range(result[1].nodes) : n.area = Hall
    /\ \E n \in Range(result[1].nodes) : n.area = <<>>
    /\ \E x \in RelatedIds(query.entity_id) :
           /\ _create_node(x) # <<>> /\ _create_node(x)[1].area = Kitchen
           /\ x \notin ResultNodeIds
    /\ retval > 0

(***************************************************************************)
(* Properties of the setup.                                                *)
(***************************************************************************)
\* C23 (as claimed): when a setup entry point has returned False, DOMAIN is
\* not a key of hass.data.
C23_NoPartialInitialization ==
    \A i \in 1..Len(hass.calls) :
        ~hass.calls[i].returned => hass.calls[i].data = "absent"

\* what holds instead: DOMAIN is gone when the setup raised, and stays with
\* its graph_service when only the panel registration failed
PartialAfterPanelFailure ==
    \A i \in 1..Len(hass.calls) :
        ~hass.calls[i].returned
        => hass.calls[i].data = IF hass.calls[i].panel_failed THEN "service"
                                ELSE "absent"

\* C24 (as claimed): the setup call that follows one whose panel
\* registration failed calls _ensure_panel_registered, and no setup call
\* returns True while the frontend has no panel.
C24_PanelRetried ==
    /\ \A i \in 1..(Len(hass.calls) - 1) :
           hass.calls[i].panel_failed => hass.calls[i + 1].ensured
    /\ \A i \in 1..Len(hass.calls) :
           hass.calls[i].returned => hass.calls[i].panel

\* C25 (as claimed): both endpoints of every edge of a result of either
\* query are ids of nodes of the result.
C25_NoDanglingEdges ==
    Done => \A e \in ResultEdges :
                e.from_node \in ResultNodeIds /\ e.to_node \in ResultNodeIds

\* what holds of the filtered query, which resolves a neighbor before it
\* records the edge
C25_FilteredOnly ==
    (Done /\ query.kind = "filtered")
    => \A e \in ResultEdges :
           e.from_node \in ResultNodeIds /\ e.to_node \in ResultNodeIds

\* C26 (as claimed): on the same registries the nodes of
\* get_entity_neighborhood(focus, d) are among the nodes of
\* get_entity_neighborhood(focus, d + 1).
C26_DepthMonotone ==
    (Done /\ prev # <<>> /\ query.max_depth = prev[1].query.max_depth + 1)
    => {n.id : n \in prev[1].nodes} \subseteq ResultNodeIds

\* the same up to max_depth 2, where it holds: the neighbors of the focus
\* are all visited whatever the order
C26_UpToTwo ==
    (Done /\ prev # <<>> /\ query.max_depth = prev[1].query.max_depth + 1
     /\ query.max_depth <= 2)
    => {n.id : n \in prev[1].nodes} \subseteq ResultNodeIds

\* no id occurs twice in the log of the expansions
ExpandedOnce ==
    \A i, j \in 1..Len(expanded) : expanded[i] = expanded[j] => i = j

\* C27: every traversal of either query that has started ends (with a result
\* or with an exception), and no node id is expanded twice in a query.
C27_Termination ==
    /\ [](ExpandedOnce)
    /\ (pc = "running") ~> (pc \in {"done", "raised"})

\* a finished query in which two expanded nodes lie on a cycle: the light,
\* its device and their area are related pairwise
C27_Witness ==
    /\ Done /\ query.entity_id = L1 /\ query.max_depth = 2
    /\ L1 \in Range(expanded) /\ DeviceNode(D1) \in Range(expanded)
    /\ AreaNode(A1) \in RelatedIds(L1) \cap RelatedIds(DeviceNode(D1))
    /\ L1 \in RelatedIds(AreaNode(A1))
    /\ L1 \in RelatedIds(DeviceNode(D1))

\* the query has no domain, area or relationship filter
NoFilters ==
    /\ query.domain_filter = <<>> /\ query.area_filter = <<>>
    /\ query.relationship_filter = <<>>

\* C28 (as claimed): the node list and the edge list returned by
\* get_filtered_neighborhood without filters are those that
\* get_entity_neighborhood returns for the same focus and max_depth on the
\* same registries (for one of the orders in which it may iterate the sets
\* of referenced entities).
C28_FilteredAgrees ==
    (Done /\ query.kind = "filtered" /\ NoFilters)
    => [nodes |-> result[1].nodes, edges |-> result[1].edges]
          \in AloneResults([query EXCEPT !.kind = "plain"])

\* what holds instead: the two agree on the nodes, and the filtered query
\* returns the edges of the unfiltered one whose endpoints are both nodes
C28_AgreeUpToDangling ==
    (Done /\ query.kind = "filtered" /\ NoFilters)
    => \E r \in AloneResults([query EXCEPT !.kind = "plain"]) :
           /\ r.nodes = result[1].nodes
           /\ result[1].edges
                = SelectSeq(r.edges,
                      LAMBDA e : /\ e.from_node \in ResultNodeIds
                                 /\ e.to_node \in ResultNodeIds)

\* C29: no edge recorded by either query joins a node to itself, at any
\* point of the traversal and in the result.
C29_NoSelfLoops ==
    /\ \A e \in Range(edges) : e.from_node # e.to_node
    /\ Done => \A e \in ResultEdges : e.from_node # e.to_node

\* a finished query on a zone whose own relationship list names the zone
\* itself, with an edge to the light inside the zone
C29_Witness ==
    /\ Done /\ query.entity_id = Z1 /\ query.max_depth >= 1
    /\ Z1 \in RelatedIds(Z1)
    /\ HasEdge(Z1, L1)

\* a finished query on an automation that names itself among its triggers
SelfReferencingAutomation ==
    /\ Done /\ query.entity_id = M1 /\ query.max_depth >= 1
    /\ M1 \in TriggerEntities(M1)
    /\ ResultEdges # {}

(***************************************************************************)
(* Properties of the search results.                                       *)
(***************************************************************************)
\* C30 (as claimed): no two results of search_entities have the same
\* entity_id.
C30_SearchUnique ==
    search_out # <<>>
    => \A i, j \in 1..Len(search_out[1]) :
           search_out[1][i].entity_id = search_out[1][j].entity_id => i = j

\* what holds instead: two results with the same entity_id are a zone, once
\* from the entity pass and once from the zone pass
OnlyZonesTwice ==
    search_out # <<>>
    => \A i, j \in 1..Len(search_out[1]) :
           (i < j /\ search_out[1][i].entity_id = search_out[1][j].entity_id)
           => /\ StartsWith(search_out[1][i].entity_id, "zone", ".")
              /\ search_out[1][i].friendly_name # search_out[1][j].friendly_name

====
